---------------------------- MODULE Spec2Model ----------------------------
(* A model of swc-remove-matched-charset-plugin (src/src/lib.rs): the        *)
(* RemoveInvalidContent visitor, its substitution engine and the             *)
(* process_transform entry point.                                            *)
(*                                                                           *)
(* Texts are sequences of characters, a character being a one-element        *)
(* token.  "U4E2D" and "U6587" stand for two CJK ideographs (three UTF-8     *)
(* bytes each), "NL" for the line feed, "\\" for the backslash.              *)
EXTENDS Integers, Sequences, FiniteSets, TLC

\* ------------------------------------------------------------------ bounds

\* The longest configured rule list (Config.matches).
MaxRules == 2

\* process_transform is run at most this many times on the same tree.
MaxPass == 2

\* process_transform is run again only on a tree whose texts are at most
\* this long (a non-empty filler can lengthen a text at every run).
MaxText == 8

\* ------------------------------------------------------------ characters

Ideographs == {"U4E2D", "U6587"}

Alphabet == {"a", "b", "c", "n", "x", "*", "\\", "NL"} \cup Ideographs

\* str::len() of one character: its UTF-8 width in bytes.
Utf8Len(c) == IF c \in Ideographs THEN 3 ELSE 1

RECURSIVE len(_)
\* str::len(): the length of a text in bytes.
len(s) == IF s = <<>> THEN 0 ELSE Utf8Len(Head(s)) + len(Tail(s))

RECURSIVE repeat(_, _)
\* str::repeat(n): the text s, n times over.
repeat(s, n) == IF n = 0 THEN <<>> ELSE s \o repeat(s, n - 1)

\* Option::None, for the raw of a Str and the text fields a node kind lacks.
None == <<"None">>

\* --------------------------------------------------------------- Regex

\* The index of the "]" closing the class opened at i (a "]" right after
\* the "[" is a member, not the end); 0 when the class is unclosed.
ClassEnd(src, i) ==
    LET ends == {j \in (i + 2)..Len(src) : src[j] = "]"}
    IN  IF ends = {} THEN 0 ELSE CHOOSE j \in ends : \A k \in ends : j <= k

RECURSIVE Parse(_, _, _, _)
\* The pattern parser: alternatives separated by "|", each a sequence of
\* atoms: a literal character, "." (any character but the line feed) or a
\* bracketed class.  An atom is the set of characters it accepts.
Parse(src, i, cur, alts) ==
    IF i > Len(src) THEN [ok |-> TRUE, alts |-> Append(alts, cur)]
    ELSE IF src[i] = "|" THEN Parse(src, i + 1, <<>>, Append(alts, cur))
    ELSE IF src[i] = "." THEN
        Parse(src, i + 1, Append(cur, Alphabet \ {"NL"}), alts)
    ELSE IF src[i] = "[" THEN
        LET j == ClassEnd(src, i)
        IN  IF j = 0 THEN [ok |-> FALSE, alts |-> <<>>]
            ELSE Parse(src, j + 1,
                       Append(cur, {src[k] : k \in (i + 1)..(j - 1)}), alts)
    ELSE Parse(src, i + 1, Append(cur, {src[i]}), alts)

\* Regex::new(pattern): Ok(matcher) or Err.
RegexNew(src) == Parse(src, 1, <<>>, <<>>)

\* Whether alternative alt matches text s at position i.
AltMatches(alt, s, i) ==
    /\ i + Len(alt) - 1 <= Len(s)
    /\ \A k \in 1..Len(alt) : s[i + k - 1] \in alt[k]

\* The length of the match of re that starts at position i of s (the first
\* alternative that matches there wins); 0 when none starts there.
MatchLen(re, s, i) ==
    LET hits == {a \in 1..Len(re) : AltMatches(re[a], s, i)}
    IN  IF hits = {} THEN 0
        ELSE Len(re[CHOOSE a \in hits : \A b \in hits : a <= b])

\* Regex::is_match
is_match(re, s) == \E i \in 1..Len(s) : MatchLen(re, s, i) > 0

\* The closure handed to replace_all: what one matched occurrence becomes.
Replacement(filler, matched_str) ==
    IF filler = <<>> THEN <<>> ELSE repeat(filler, len(matched_str))

RECURSIVE ReplaceFrom(_, _, _, _)
\* The scan of Regex::replace_all from position i: the leftmost match is
\* replaced by what the closure returns for it, and the scan resumes after
\* the match.
ReplaceFrom(re, s, i, filler) ==
    IF i > Len(s) THEN <<>>
    ELSE LET l == MatchLen(re, s, i)
         IN  IF l > 0
             THEN Replacement(filler, SubSeq(s, i, i + l - 1))
                      \o ReplaceFrom(re, s, i + l, filler)
             ELSE <<s[i]>> \o ReplaceFrom(re, s, i + 1, filler)

\* Faulty variant of replace_all: Regex::replace, which stops after the first
\* occurrence.
replace_all_first_only(re, s, filler) ==
    LET starts == {i \in 1..Len(s) : MatchLen(re, s, i) > 0}
    IN  IF starts = {} THEN s
        ELSE LET i == CHOOSE j \in starts : \A k \in starts : j <= k
                 l == MatchLen(re, s, i)
             IN  SubSeq(s, 1, i - 1)
                     \o Replacement(filler, SubSeq(s, i, i + l - 1))
                     \o SubSeq(s, i + l, Len(s))

\* Regex::replace_all with the closure of replace_with.
replace_all(re, s, filler) == ReplaceFrom(re, s, 1, filler)

\* ------------------------------------------------- RemoveInvalidContent

\* Faulty variant of replace_with: the is_match guard is dropped, so a text without
\* a match comes back as Ok(the same text).
replace_with_always_ok(this, matcher, str) ==
    [ok |-> TRUE, text |-> replace_all(matcher, str, this.replace_with)]

\* RemoveInvalidContent::replace_with: Err(false) when the matcher does not
\* match, else Ok(the text with every occurrence replaced).
replace_with(this, matcher, str) ==
    IF ~is_match(matcher, str) THEN [ok |-> FALSE, text |-> <<>>]
    ELSE [ok |-> TRUE, text |-> replace_all(matcher, str, this.replace_with)]

\* ------------------------------------------------------------- the tree

\* DUMMY_SP, the span of a node built without a source position.
DUMMY_SP == 0

RECURSIVE from_tpl_raw(_)
\* Str::from_tpl_raw: the cooked form of a raw template text.  "\\" "\\"
\* decodes to one backslash, "\\" "n" to the line feed, any other escaped
\* character keeps its backslash, a lone trailing backslash is dropped.
from_tpl_raw(raw) ==
    IF raw = <<>> THEN <<>>
    ELSE IF Head(raw) # "\\" THEN <<Head(raw)>> \o from_tpl_raw(Tail(raw))
    ELSE IF Len(raw) = 1 THEN <<>>
    ELSE LET next == raw[2]
             rest == from_tpl_raw(SubSeq(raw, 3, Len(raw)))
         IN  IF next = "\\" THEN <<"\\">> \o rest
             ELSE IF next = "n" THEN <<"NL">> \o rest
             ELSE <<"\\", next>> \o rest

RECURSIVE Escape(_)
\* The source form of a string value: backslash and line feed escaped.
Escape(v) ==
    IF v = <<>> THEN <<>>
    ELSE IF Head(v) = "\\" THEN <<"\\", "\\">> \o Escape(Tail(v))
    ELSE IF Head(v) = "NL" THEN <<"\\", "n">> \o Escape(Tail(v))
    ELSE <<Head(v)>> \o Escape(Tail(v))

\* Node kinds whose hook is empty: the subtree is not entered.
StopKinds ==
    {"ExportAll", "NamedExport", "ExportDefaultDecl", "Import", "ImportDecl",
     "ImportSpecifier"}

\* A node with no text of its own.
Inner(kind, span, children) ==
    [kind |-> kind, children |-> children, span |-> span, tail |-> FALSE,
     value |-> None, raw |-> None, cooked |-> None]

\* A parsed string literal: Str { span, value, raw: Some(source form) }.
ParsedStr(span, value) ==
    [kind |-> "Str", children |-> <<>>, span |-> span, tail |-> FALSE,
     value |-> value, raw |-> <<"\"">> \o Escape(value) \o <<"\"">>,
     cooked |-> None]

\* A parsed template segment: TplElement { span, tail, cooked, raw }.
ParsedTpl(span, tail, raw) ==
    [kind |-> "TplElement", children |-> <<>>, span |-> span, tail |-> tail,
     value |-> None, raw |-> raw, cooked |-> from_tpl_raw(raw)]

\* A parsed markup text: JSXText { span, value, raw }.
ParsedJSXText(span, raw) ==
    [kind |-> "JSXText", children |-> <<>>, span |-> span, tail |-> FALSE,
     value |-> raw, raw |-> raw, cooked |-> None]

Nodes == 1..29

Root == 1

\* The program the transform is run on, with string text t and template
\* raw text r:
\*    import { "t" as S } from "t";  export * from "t";  export { S } from "t";
\*    export default class { p = "t" }
\*    import("t");  "t".f("t");  `r${"t"}t`;
\*    <div a="t">t</div>;  ({ k: "t" })
Parsed(t, r) ==
    [n \in Nodes |->
       CASE n = 1  -> Inner("Module", n, <<2, 4, 6, 8, 10, 13, 17, 21, 25>>)
         [] n = 2  -> Inner("ImportDecl", n, <<28, 3>>)
         [] n = 4  -> Inner("ExportAll", n, <<5>>)
         [] n = 6  -> Inner("NamedExport", n, <<7>>)
         [] n = 8  -> Inner("ExportDefaultDecl", n, <<9>>)
         [] n = 10 -> Inner("CallExpr", n, <<11, 12>>)
         [] n = 11 -> Inner("Import", n, <<>>)
         [] n = 13 -> Inner("CallExpr", n, <<14, 16>>)
         [] n = 14 -> Inner("MemberExpr", n, <<15>>)
         [] n = 17 -> Inner("Tpl", n, <<19, 18, 20>>)
         [] n = 18 -> ParsedTpl(n, FALSE, r)
         [] n = 20 -> ParsedTpl(n, TRUE, t)
         [] n = 21 -> Inner("JSXElement", n, <<22, 24>>)
         [] n = 22 -> Inner("JSXAttr", n, <<23>>)
         [] n = 24 -> ParsedJSXText(n, t)
         [] n = 25 -> Inner("ObjectLit", n, <<26>>)
         [] n = 26 -> Inner("KeyValueProp", n, <<27>>)
         [] n = 28 -> Inner("ImportSpecifier", n, <<29>>)
         [] OTHER  -> ParsedStr(n, t)]

\* ------------------------------------------------------------ the inputs

PCjk == <<"[", "U4E2D", "U6587", "]">>
PAb == <<"a", "b">>
PUrl == <<"a", ".", "|", "c">>
PBn == <<"[", "b", "NL", "]">>
PUnclosed == <<"[", "a">>

\* The pattern strings a configuration is drawn from; PUnclosed does not
\* compile.  No pattern of the pool matches the empty text.
PatternPool == {PCjk, PAb, PUrl, PBn, PUnclosed}

\* Config.replace_with: None, or Some(filler).
FillerPool == {None, <<"b">>, <<"a", "*">>}

RuleLists == UNION {[1..k -> PatternPool] : k \in 0..MaxRules}

Configs ==
    {[matches |-> m, replace_with |-> f] : m \in RuleLists, f \in FillerPool}

\* The texts of the parsed program: str for the string literals and the
\* markup text, tpl for the raw of the first template segment.
Inputs ==
    { [str |-> <<"a", "a", "b", "b">>,       tpl |-> <<"\\", "\\", "U4E2D">>],
      [str |-> <<"x", "U4E2D", "U6587">>,    tpl |-> <<"\\", "n", "a", "b">>],
      [str |-> <<"U4E2D", "U6587">>,         tpl |-> <<"x", "U6587", "x">>],
      [str |-> <<"a", "b", "c", "x">>,       tpl |-> <<"a", "\\", "n">>],
      [str |-> <<"\\", "\\">>,               tpl |-> <<"x", "NL">>],
      [str |-> <<"U4E2D", "a", "b", "a">>,   tpl |-> <<"c", "a", "b">>],
      [str |-> <<"x">>,                      tpl |-> <<"b", "U4E2D", "a", "x">>],
      [str |-> <<>>,                         tpl |-> <<>>] }

\* ------------------------------------------------------------- the state

VARIABLES
    config,     \* the decoded Config { replace_with, matches }
    self,       \* the RemoveInvalidContent { matchers, replace_with }
    program,    \* the tree: node -> its fields
    stack,      \* the nodes the walk has still to visit, next first
    pc,         \* "start", "walk", "done" or "aborted" (the unwrap panicked)
    pass,       \* which run of process_transform this is
    orig,       \* the tree as parsed
    entry,      \* the tree when the current run began
    visits      \* node -> how often the current run has visited it

vars == <<config, self, program, stack, pc, pass, orig, entry, visits>>

Init ==
    /\ config \in Configs
    /\ \E in \in Inputs : program = Parsed(in.str, in.tpl)
    /\ self = [matchers |-> <<>>, replace_with |-> <<>>]
    /\ stack = <<>>
    /\ pc = "start"
    /\ pass = 1
    /\ orig = program
    /\ entry = program
    /\ visits = [n \in Nodes |-> 0]

\* ----------------------------------------------------------- the visitor

\* Faulty variant of is_import: the dynamic-import form is not recognised.
is_import_never(prog, n) == FALSE

\* Callee::is_import of the call expression n: its callee is its first
\* child.
is_import(prog, n) == prog[prog[n].children[1]].kind = "Import"

\* Str::from(text): Str { span: DUMMY_SP, value: text, raw: None }.
StrFrom(text) ==
    [kind |-> "Str", children |-> <<>>, span |-> DUMMY_SP, tail |-> FALSE,
     value |-> text, raw |-> None, cooked |-> None]

\* Faulty variant of str_loop: every matcher scans the value the node had
\* on entry, and the last one that matches installs its result.
str_loop_indep(this, node, i) ==
    LET hits == {k \in i..Len(this.matchers) :
                    replace_with(this, this.matchers[k], node.value).ok}
    IN  IF hits = {} THEN node
        ELSE LET k == CHOOSE h \in hits : \A g \in hits : g <= h
             IN  StrFrom(replace_with(this, this.matchers[k], node.value).text)

\* Faulty variant of str_loop: the loop ends at the first matcher that
\* matches.
str_loop_break(this, node, i) ==
    LET hits == {k \in i..Len(this.matchers) :
                    replace_with(this, this.matchers[k], node.value).ok}
    IN  IF hits = {} THEN node
        ELSE LET k == CHOOSE h \in hits : \A g \in hits : h <= g
             IN  StrFrom(replace_with(this, this.matchers[k], node.value).text)

RECURSIVE str_loop(_, _, _)
\* The loop of visit_mut_str from matcher i on: each matcher reads the
\* node's current value, and a match installs a new Str.
str_loop(this, node, i) ==
    IF i > Len(this.matchers) THEN node
    ELSE LET new_value == replace_with(this, this.matchers[i], node.value)
         IN  str_loop(this,
                      IF new_value.ok THEN StrFrom(new_value.text) ELSE node,
                      i + 1)

RECURSIVE tpl_loop_stale_cooked(_, _, _)
\* Faulty variant of tpl_loop: the cooked form is carried over, not decoded
\* from the new raw.
tpl_loop_stale_cooked(this, node, i) ==
    IF i > Len(this.matchers) THEN node
    ELSE LET raw_value == replace_with(this, this.matchers[i], node.raw)
         IN  tpl_loop_stale_cooked(this,
                      IF raw_value.ok
                      THEN [node EXCEPT !.raw = raw_value.text]
                      ELSE node,
                      i + 1)

RECURSIVE tpl_loop_default(_, _, _)
\* Faulty variant of tpl_loop: span and tail are left to their defaults.
tpl_loop_default(this, node, i) ==
    IF i > Len(this.matchers) THEN node
    ELSE LET raw_value == replace_with(this, this.matchers[i], node.raw)
         IN  tpl_loop_default(this,
                      IF raw_value.ok
                      THEN [kind |-> "TplElement", children |-> <<>>,
                            span |-> DUMMY_SP, tail |-> FALSE,
                            value |-> None, raw |-> raw_value.text,
                            cooked |-> from_tpl_raw(raw_value.text)]
                      ELSE node,
                      i + 1)

RECURSIVE tpl_loop(_, _, _)
\* The loop of visit_mut_tpl_element from matcher i on: each matcher reads
\* the current raw, and a match installs a TplElement with the node's span
\* and tail, the new raw and the cooked form decoded from it.
tpl_loop(this, node, i) ==
    IF i > Len(this.matchers) THEN node
    ELSE LET raw_value == replace_with(this, this.matchers[i], node.raw)
         IN  tpl_loop(this,
                      IF raw_value.ok
                      THEN [kind |-> "TplElement", children |-> <<>>,
                            span |-> node.span, tail |-> node.tail,
                            value |-> None, raw |-> raw_value.text,
                            cooked |-> from_tpl_raw(raw_value.text)]
                      ELSE node,
                      i + 1)

RECURSIVE jsx_loop(_, _, _)
\* The loop of visit_mut_jsx_text from matcher i on: each matcher reads the
\* current raw, and a match sets raw and value to the new text.
jsx_loop(this, node, i) ==
    IF i > Len(this.matchers) THEN node
    ELSE LET new_value == replace_with(this, this.matchers[i], node.raw)
         IN  jsx_loop(this,
                      IF new_value.ok
                      THEN [node EXCEPT !.raw = new_value.text,
                                        !.value = new_value.text]
                      ELSE node,
                      i + 1)

\* The bookkeeping of one hook call on the node n at the head of the
\* stack: n is replaced by rest, the nodes the hook goes on to visit.
Step(n, rest) ==
    /\ stack' = rest \o Tail(stack)
    /\ visits' = [visits EXCEPT ![n] = @ + 1]
    /\ UNCHANGED <<config, self, pc, pass, orig, entry>>

\* The node the walk visits next.
Current == Head(stack)

Walking == pc = "walk" /\ stack # <<>>

\* visit_mut_export_all, visit_mut_named_export,
\* visit_mut_export_default_decl, visit_mut_import, visit_mut_import_decl,
\* visit_mut_import_specifier: the empty hooks.
visit_mut_stop ==
    /\ Walking
    /\ program[Current].kind \in StopKinds
    /\ program' = program
    /\ Step(Current, <<>>)

\* Faulty variant of visit_mut_call_expr: no call expression is entered.
visit_mut_call_expr_skip ==
    /\ Walking
    /\ program[Current].kind = "CallExpr"
    /\ program' = program
    /\ Step(Current, <<>>)

visit_mut_call_expr ==
    /\ Walking
    /\ program[Current].kind = "CallExpr"
    /\ program' = program
    /\ Step(Current, IF ~is_import(program, Current)
                     THEN program[Current].children ELSE <<>>)

visit_mut_jsx_text ==
    /\ Walking
    /\ program[Current].kind = "JSXText"
    /\ program' = [program EXCEPT ![Current] = jsx_loop(self, @, 1)]
    /\ Step(Current, program'[Current].children)

visit_mut_str ==
    /\ Walking
    /\ program[Current].kind = "Str"
    /\ program' = [program EXCEPT ![Current] = str_loop(self, @, 1)]
    /\ Step(Current, program'[Current].children)

visit_mut_tpl_element ==
    /\ Walking
    /\ program[Current].kind = "TplElement"
    /\ program' = [program EXCEPT ![Current] = tpl_loop(self, @, 1)]
    /\ Step(Current, program'[Current].children)

\* The hooks the visitor does not override: visit the children.
visit_mut_children ==
    /\ Walking
    /\ program[Current].kind \notin
           StopKinds \cup {"CallExpr", "JSXText", "Str", "TplElement"}
    /\ program' = program
    /\ Step(Current, program[Current].children)

\* ----------------------------------------------------- process_transform

\* Faulty variant of new: a pattern that does not compile is dropped and
\* the walk starts with the others.
new_lenient ==
    /\ pc = "start"
    /\ LET good == SelectSeq(config.matches, LAMBDA m : RegexNew(m).ok)
       IN  self' = [matchers |-> [i \in 1..Len(good) |-> RegexNew(good[i]).alts],
                    replace_with |->
                       IF config.replace_with = None THEN <<>>
                       ELSE config.replace_with]
    /\ stack' = <<Root>>
    /\ pc' = "walk"
    /\ UNCHANGED <<config, program, pass, orig, entry, visits>>

\* RemoveInvalidContent::new, called by process_transform before the walk:
\* every pattern is compiled and unwrapped, so a pattern that does not
\* compile panics; otherwise the walk starts at the root.
new ==
    /\ pc = "start"
    /\ LET compiled == [i \in 1..Len(config.matches) |->
                           RegexNew(config.matches[i])]
       IN  IF \E i \in 1..Len(config.matches) : ~compiled[i].ok
           THEN /\ pc' = "aborted"
                /\ UNCHANGED <<self, stack>>
           ELSE /\ self' = [matchers |->
                               [i \in 1..Len(config.matches) |->
                                   compiled[i].alts],
                            replace_with |->
                               IF config.replace_with = None THEN <<>>
                               ELSE config.replace_with]
                /\ stack' = <<Root>>
                /\ pc' = "walk"
    /\ UNCHANGED <<config, program, pass, orig, entry, visits>>

\* process_transform returns the program once the walk is over.
return ==
    /\ pc = "walk"
    /\ stack = <<>>
    /\ pc' = "done"
    /\ UNCHANGED <<config, self, program, stack, pass, orig, entry, visits>>

\* process_transform is called again, on the tree it returned and with the
\* same configuration.
process_transform ==
    /\ pc = "done"
    /\ pass < MaxPass
    /\ \A n \in Nodes :
          /\ program[n].value # None => Len(program[n].value) <= MaxText
          /\ program[n].raw # None => Len(program[n].raw) <= MaxText
    /\ pass' = pass + 1
    /\ entry' = program
    /\ visits' = [n \in Nodes |-> 0]
    /\ self' = [matchers |-> <<>>, replace_with |-> <<>>]
    /\ pc' = "start"
    /\ UNCHANGED <<config, program, stack, orig>>

Next ==
    \/ new
    \/ visit_mut_stop
    \/ visit_mut_call_expr
    \/ visit_mut_jsx_text
    \/ visit_mut_str
    \/ visit_mut_tpl_element
    \/ visit_mut_children
    \/ return
    \/ process_transform

Spec == Init /\ [][Next]_vars

\* ================================================================ claims

TextKinds == {"Str", "TplElement", "JSXText"}

\* The form of a text node the rules read: the value of a string literal,
\* the raw of a template segment or a markup text.
Scanned(node) == IF node.kind = "Str" THEN node.value ELSE node.raw

\* The parent of a node other than the root.
ParentOf(prog, n) ==
    CHOOSE p \in Nodes :
        \E k \in 1..Len(prog[p].children) : prog[p].children[k] = n

\* A module-linkage node: an import declaration, an export-all, a named
\* export, a default-export declaration, or a call whose callee is the
\* dynamic-import form.
Linkage(prog, a) ==
    \/ prog[a].kind \in
           {"ImportDecl", "ExportAll", "NamedExport", "ExportDefaultDecl"}
    \/ /\ prog[a].kind = "CallExpr"
       /\ Len(prog[a].children) > 0
       /\ prog[prog[a].children[1]].kind = "Import"

RECURSIVE UnderLinkage(_, _)
\* Whether the path from the root to n passes through a linkage node.
UnderLinkage(prog, n) ==
    /\ n # Root
    /\ \/ Linkage(prog, ParentOf(prog, n))
       \/ UnderLinkage(prog, ParentOf(prog, n))

\* The kinds and children of the parsed tree, which do not depend on its
\* texts.
Shape == Parsed(<<>>, <<>>)

\* The nodes of the parsed tree that are module-linkage nodes or lie under
\* one.
LinkageNodes == {n \in Nodes : Linkage(Shape, n) \/ UnderLinkage(Shape, n)}

\* The parent of each node of the parsed tree but the root.
Parent == [n \in Nodes \ {Root} |-> ParentOf(Shape, n)]

AllCompile == \A i \in 1..Len(config.matches) : RegexNew(config.matches[i]).ok

\* The configured rules, compiled, in their configured order.
Rules == [i \in 1..Len(config.matches) |-> RegexNew(config.matches[i]).alts]

\* The configured filler.
Filler == IF config.replace_with = None THEN <<>> ELSE config.replace_with

\* One rule applied to a text: a rule that does not match returns it.
ApplyRule(re, t) ==
    IF is_match(re, t) THEN replace_all(re, t, Filler) ELSE t

RECURSIVE ApplyRules(_, _)
\* apply(Rk, ... apply(R1, t)): the last rule applied to what the rules
\* before it made of t.
ApplyRules(rs, t) ==
    IF rs = <<>> THEN t
    ELSE ApplyRule(rs[Len(rs)], ApplyRules(SubSeq(rs, 1, Len(rs) - 1), t))

\* Whether some rule matches when rs is applied in order to t.
Hit(rs, t) ==
    \E k \in 1..Len(rs) : is_match(rs[k], ApplyRules(SubSeq(rs, 1, k - 1), t))

Started == pc \in {"walk", "done"}

\* C1 Module-linkage immunity: whatever the rules and the filler, every
\* node under an import declaration, an export-all, a named export, a
\* default-export declaration or a dynamic-import call is, in every state
\* of every run, as it was parsed, even when its text matches a rule.
C1_LinkageImmunity ==
    \A n \in Nodes :
        n \in LinkageNodes => program[n] = orig[n]

\* A finished run in which the module path of the import, the string of the
\* import specifier, the export paths, the string under the default export
\* and the argument of import() all match a rule and the same text in an
\* ordinary call was rewritten.
C1_Witness ==
    /\ pc = "done"
    /\ \A n \in {3, 5, 7, 9, 12, 29} :
          /\ n \in LinkageNodes
          /\ Hit(Rules, orig[n].value)
    /\ program[16] # orig[16]

\* C2 Length preservation with non-empty filler: with a non-empty filler
\* (one character or several), every matched occurrence of n characters,
\* multi-byte characters included, is replaced by exactly n characters, so
\* every text node keeps the character length it had when the run began.
C2_LengthPreserved ==
    (Started /\ self.replace_with # <<>>) =>
        \A n \in Nodes :
            orig[n].kind \in TextKinds =>
                Len(Scanned(program[n])) = Len(Scanned(entry[n]))

\* C3 No-op on non-matching input: when no rule matches the text of any
\* string literal, template segment or markup text of the parsed tree (in
\* particular when the rule list is empty), the tree is at every moment the
\* parsed tree: every value, raw and cooked form and every other field.
C3_NoMatchNoChange ==
    program # orig =>
        \E n \in Nodes : \E k \in 1..Len(Rules) :
            orig[n].kind \in TextKinds /\ is_match(Rules[k], Scanned(orig[n]))

\* A finished run with a rule that compiles, over non-empty texts none of
\* which the rule matches, every text node outside module linkage visited.
C3_Witness ==
    /\ pc = "done"
    /\ Len(self.matchers) >= 1
    /\ \A n \in Nodes :
          orig[n].kind \in TextKinds =>
             /\ Scanned(orig[n]) # <<>>
             /\ \A k \in 1..Len(Rules) : ~is_match(Rules[k], Scanned(orig[n]))
             /\ (n \notin LinkageNodes => visits[n] = 1)

\* C4 Order sensitivity across rules: once a text node has been visited,
\* the text installed in it is apply(Rk, ... apply(R1, t)) for the rules in
\* their configured order and the text t the node had when the run began;
\* with two rules, apply(R2, apply(R1, t)).  A rule that does not match
\* returns its input, and each rule scans what the rules before it left.
C4_RulesInOrder ==
    Started =>
        \A n \in Nodes :
            (orig[n].kind \in TextKinds /\ visits[n] > 0) =>
                /\ Scanned(program[n]) = ApplyRules(Rules, Scanned(entry[n]))
                /\ Len(Rules) = 2 =>
                      Scanned(program[n]) =
                          ApplyRule(Rules[2], ApplyRule(Rules[1], Scanned(entry[n])))

\* A visited string literal under two rules where the second rule does not
\* match the original text but matches the filler the first rule put in, so
\* that the installed text is neither rule's result on the original.
C4_Witness ==
    /\ pc = "done"
    /\ pass = 1
    /\ Len(Rules) = 2
    /\ LET t == orig[16].value
       IN  /\ is_match(Rules[1], t)
           /\ ~is_match(Rules[2], t)
           /\ is_match(Rules[2], ApplyRule(Rules[1], t))
           /\ program[16].value # ApplyRule(Rules[1], t)
           /\ program[16].value = ApplyRule(Rules[2], ApplyRule(Rules[1], t))

\* Every occurrence of every rule is one character long (a character class
\* or an alternation of single characters).
SingleCharRules ==
    \A k \in 1..Len(Rules) : \A a \in 1..Len(Rules[k]) : Len(Rules[k][a]) = 1

\* C5 as stated.  Idempotence with empty filler: for every rule set, a
\* second run on the output of the first changes nothing, also when a
\* deletion brings the surrounding characters together.
C5_Idempotent ==
    (pc = "done" /\ pass = 2 /\ Filler = <<>>) => program = entry

\* C5 as amended.  With an empty filler and rules whose every occurrence
\* is a single character, a second run on the output of the first changes
\* nothing.
C5_IdempotentSingleChar ==
    (pass = 2 /\ Filler = <<>> /\ SingleCharRules) => program = entry

\* A second run that finished, with an empty filler and two single-character
\* rules, on a tree the first run had rewritten.
C5_Witness ==
    /\ pc = "done"
    /\ pass = 2
    /\ Filler = <<>>
    /\ Len(Rules) = 2
    /\ Rules[1] # Rules[2]
    /\ SingleCharRules
    /\ entry # orig
    /\ \A n \in {16, 18, 24} : visits[n] = 1
    /\ program = entry

\* The positions of s covered by the occurrences that start at the
\* positions S.
CoveredBy(re, s, S) ==
    {p \in 1..Len(s) : \E i \in S : i <= p /\ p < i + MatchLen(re, s, i)}

\* S is the set of starts of the leftmost non-overlapping occurrences of re
\* in s: each is an occurrence, no two overlap, and every other position
\* where an occurrence could start lies inside an occurrence that starts
\* before it.
LeftmostOccurrences(re, s, S) ==
    /\ \A i \in S : MatchLen(re, s, i) > 0
    /\ \A i, j \in S : i < j => i + MatchLen(re, s, i) <= j
    /\ \A p \in 1..Len(s) :
          (MatchLen(re, s, p) > 0 /\ p \notin S) =>
              \E i \in S : i < p /\ p < i + MatchLen(re, s, i)

RECURSIVE Without(_, _, _)
\* The characters of s from position i on whose position is not in C, in
\* their order.
Without(s, C, i) ==
    IF i > Len(s) THEN <<>>
    ELSE (IF i \in C THEN <<>> ELSE <<s[i]>>) \o Without(s, C, i + 1)

\* C6 Global deletion: with an empty filler and one rule, a visited text
\* the rule matches is left as its characters outside the leftmost
\* non-overlapping occurrences of the rule, in their order: every occurrence
\* is removed and every other character kept.  A text made of occurrences
\* only becomes empty.
C6_GlobalDeletion ==
    (Started /\ Filler = <<>> /\ Len(Rules) = 1) =>
        \A n \in Nodes :
            (orig[n].kind \in TextKinds /\ visits[n] > 0
                /\ is_match(Rules[1], Scanned(entry[n]))) =>
                LET s == Scanned(entry[n])
                IN  /\ \E S \in SUBSET (1..Len(s)) :
                          /\ LeftmostOccurrences(Rules[1], s, S)
                          /\ Scanned(program[n])
                                 = Without(s, CoveredBy(Rules[1], s, S), 1)
                    /\ CoveredBy(Rules[1], s, 1..Len(s)) = 1..Len(s)
                          => Scanned(program[n]) = <<>>

\* A visited string literal with two occurrences of the one rule and other
\* characters between and after them, of which exactly those others are
\* left.
C6_Witness ==
    /\ pc = "done"
    /\ pass = 1
    /\ Filler = <<>>
    /\ Len(Rules) = 1
    /\ orig[16].value = <<"U4E2D", "a", "b", "a">>
    /\ Rules[1] = <<<<{"a"}, Alphabet \ {"NL"}>>, <<{"c"}>>>>
    /\ program[16].value = <<"U4E2D", "a">>

\* C7 Configuration errors precede mutation: when a configured pattern does
\* not compile the transform aborts in the construction of the matcher set,
\* with no node visited and the tree as parsed; it aborts for no other
\* reason, so never once the walk has started.
C7_AbortBeforeWalk ==
    /\ (~AllCompile /\ pc # "start") => pc = "aborted"
    /\ pc = "aborted" =>
          /\ ~AllCompile
          /\ program = orig
          /\ stack = <<>>
          /\ \A n \in Nodes : visits[n] = 0
    /\ (\E n \in Nodes : visits[n] > 0) => pc # "aborted"

\* The abort, under a rule list whose first pattern compiles and matches a
\* text of the tree and whose second pattern does not compile.
C7_Witness ==
    /\ pc = "aborted"
    /\ Len(config.matches) = 2
    /\ RegexNew(config.matches[1]).ok
    /\ ~RegexNew(config.matches[2]).ok
    /\ is_match(RegexNew(config.matches[1]).alts, orig[16].value)

\* C8 Template raw/cooked synchronisation: the rules read the raw form of a
\* template segment only.  Once a segment has been visited its raw is the
\* rules applied in order to the raw it had; if none matched the segment is
\* untouched, whatever its cooked form holds; after each rule up to the
\* k-th has been applied, for every k, a segment that a rule matched has
\* cooked = decode(raw), so cooked = decode(raw) at the end of the walk.
\* The template keeps its expressions, which are rewritten by their own
\* visit only.
C8_RawCookedInSync ==
    Started =>
        \A n \in Nodes :
            (orig[n].kind = "TplElement" /\ visits[n] > 0) =>
                /\ program[n].raw = ApplyRules(Rules, entry[n].raw)
                /\ \A k \in 0..Len(Rules) :
                      LET rs == SubSeq(Rules, 1, k)
                          after == tpl_loop([self EXCEPT !.matchers = rs],
                                            entry[n], 1)
                      IN  \/ after = entry[n]
                          \/ after.cooked = from_tpl_raw(after.raw)
                /\ Hit(Rules, entry[n].raw) =>
                      program[n].cooked = from_tpl_raw(program[n].raw)
                /\ ~Hit(Rules, entry[n].raw) => program[n] = entry[n]
                /\ LET tpl == Parent[n]
                   IN  /\ program[tpl] = orig[tpl]
                       /\ \A j \in 1..Len(orig[tpl].children) :
                             LET e == orig[tpl].children[j]
                             IN  orig[e].kind = "Str" =>
                                    program[e].value =
                                       IF visits[e] > 0
                                       THEN ApplyRules(Rules, entry[e].value)
                                       ELSE entry[e].value

\* A rewritten template segment whose raw holds an escape: the rule matched
\* a character of the raw, the cooked form is the decoding of the new raw
\* and still holds the decoded character, which the rule matches and the
\* raw does not hold.
C8_Witness ==
    /\ pc = "done"
    /\ pass = 1
    /\ Len(Rules) = 1
    /\ program[18].raw # orig[18].raw
    /\ \E i \in 1..Len(program[18].raw) : program[18].raw[i] = "\\"
    /\ program[18].cooked = from_tpl_raw(program[18].raw)
    /\ program[18].cooked # program[18].raw
    /\ is_match(Rules[1], program[18].cooked)
    /\ ~is_match(Rules[1], program[18].raw)

\* C9 Traversal completeness outside module linkage: when the walk is over,
\* every string literal, template segment and markup text not under a
\* module-linkage node has been visited exactly once and holds the rules
\* applied to the text it had; no node is ever visited twice, and none
\* under module linkage is visited.
C9_TraversalComplete ==
    /\ \A n \in Nodes :
          /\ visits[n] <= 1
          /\ (n \in LinkageNodes /\ ~Linkage(orig, n)) => visits[n] = 0
    /\ pc = "done" =>
          \A n \in Nodes :
              (orig[n].kind \in TextKinds /\ n \notin LinkageNodes) =>
                  /\ visits[n] = 1
                  /\ Scanned(program[n]) = ApplyRules(Rules, Scanned(entry[n]))

\* The end of a walk that rewrote the string in the callee and the argument
\* of an ordinary call, the interpolated string and both segments of the
\* template, the attribute value and the text of the markup element and the
\* property value of the object literal.
C9_Witness ==
    /\ pc = "done"
    /\ pass = 1
    /\ \A n \in {15, 16, 18, 19, 20, 23, 24, 27} :
          /\ n \notin LinkageNodes
          /\ visits[n] = 1
          /\ Scanned(program[n]) # Scanned(orig[n])

\* C10 as stated.  Structure frame: nothing in the tree changes but the
\* text payloads (value, raw, cooked) of string literals, template segments
\* and markup texts: the nodes, their kinds, their children in order, their
\* spans and tail flags are at every moment those of the parsed tree.
C10_OnlyTextChanges ==
    /\ DOMAIN program = Nodes
    /\ \A n \in Nodes :
          /\ program[n].kind = orig[n].kind
          /\ program[n].children = orig[n].children
          /\ program[n].tail = orig[n].tail
          /\ program[n].span = orig[n].span
          /\ orig[n].kind \notin TextKinds => program[n] = orig[n]

\* C10 as amended.  The nodes, their kinds and their children in order are
\* at every moment those of the parsed tree: no node is added or removed and
\* a text that becomes empty stays as an empty node.  Nothing changes but
\* the text payloads of string literals, template segments and markup texts
\* and the span of a rewritten string literal, which becomes DUMMY_SP; a
\* template segment and a markup text keep their span, a template segment
\* its tail flag.
C10_StructureFrame ==
    /\ DOMAIN program = Nodes
    /\ \A n \in Nodes :
          /\ program[n].kind = orig[n].kind
          /\ program[n].children = orig[n].children
          /\ program[n].tail = orig[n].tail
          /\ orig[n].kind # "Str" => program[n].span = orig[n].span
          /\ (orig[n].kind = "Str" /\ program[n].span # orig[n].span) =>
                (program[n].span = DUMMY_SP /\ program[n].raw = None)
          /\ orig[n].kind \notin TextKinds => program[n] = orig[n]

\* The end of a walk in which the tail segment of the template was
\* rewritten and the markup text and a string literal became empty.
C10_Witness ==
    /\ pc = "done"
    /\ orig[20].tail
    /\ program[20].raw # orig[20].raw
    /\ orig[24].raw # <<>>
    /\ program[24].raw = <<>>
    /\ orig[27].value # <<>>
    /\ program[27].value = <<>>
    /\ program[27].span = DUMMY_SP
    /\ program[20].span = orig[20].span

=============================================================================
